---- MODULE Spec2Model ----
(***************************************************************************)
(* Model of process_pdfs.py: the line reconciler (merge_nearby_lines), the *)
(* outline inferencer (extract_document_structure) and the batch driver    *)
(* (process_pdfs).                                                         *)
(*                                                                         *)
(* Strings are sequences of one-character strings, so that concatenation, *)
(* " ".join and str.split() are computed and not assumed.  Font sizes are  *)
(* counted in half points (20 = 10pt, 21 = 10.5pt), so that two different  *)
(* sizes can be less than one point apart.  Python's line dicts live on a  *)
(* heap (a function from references to records); lists hold references,    *)
(* which is what makes the aliasing of merge_nearby_lines visible.         *)
(***************************************************************************)
EXTENDS Integers, Sequences, FiniteSets, TLC

VARIABLES
    files,            \* the input directory: one sequence of line records per PDF
    fi,               \* index in files of the PDF being processed (0: none yet)
    pc,               \* position in process_pdfs / extract_document_structure
    handle,           \* per PDF: "unopened", "failed", "open" or "closed"
    closes,           \* per PDF: how many times doc.close() was called
    heap,             \* the line dicts of the current document, by reference
    raw_lines,        \* list of references: the argument of merge_nearby_lines
    lines,            \* list of references: the result of merge_nearby_lines
    threshold,        \* the threshold merge_nearby_lines is called with
    first_result,     \* harness: a deep copy of the first merge's result
    extracted_title,  \* extract_document_structure's locals
    title_bboxes,
    baseline_size,
    candidates,
    headings,
    outline,
    data,             \* the value returned to process_pdfs
    outputs           \* per PDF: the JSON artifact written, or NoOutput

vars == <<files, fi, pc, handle, closes, heap, raw_lines, lines, threshold,
          first_result, extracted_title, title_bboxes, baseline_size,
          candidates, headings, outline, data, outputs>>

locals == <<extracted_title, title_bboxes, baseline_size, candidates,
            headings, outline>>

\* ------------------------------------------------------------ constants

\* def merge_nearby_lines(lines, threshold=5)
DefaultThreshold == 5

\* abs(font difference) < 1, one point being two half points
FontTolerance == 2

\* len(line['text'].split()) < 20
WordLimit == 20

\* heading_font_sizes[:4]
MaxLevels == 4

\* ------------------------------------------------------------ bounds

\* Lines per document in the merge and outline input families.
MaxLines == 3

\* PDFs in the input directory of the batch family.
NumFiles == 2

\* ------------------------------------------------------------ helpers

Abs(x) == IF x < 0 THEN 0 - x ELSE x

Min(a, b) == IF a <= b THEN a ELSE b

Max(a, b) == IF a >= b THEN a ELSE b

Range(s) == {s[i] : i \in 1..Len(s)}

\* The values a list of references points to.
Deref(h, refs) == [i \in 1..Len(refs) |-> h[refs[i]]]

\* str.split() with no argument, counted: the maximal runs of non-blanks.
WordCount(text) ==
    Cardinality({i \in 1..Len(text) :
                    text[i] # " " /\ (i = 1 \/ text[i - 1] = " ")})

\* " ".join(texts)
RECURSIVE JoinTexts(_)
JoinTexts(texts) ==
    IF texts = <<>> THEN <<>>
    ELSE IF Len(texts) = 1 THEN texts[1]
    ELSE texts[1] \o <<" ">> \o JoinTexts(Tail(texts))

\* ------------------------------------------------- merge_nearby_lines

\* Variant without the page test (a slip C1 must detect).
ShouldMergeNoPage(current_line, next_line, thr) ==
    /\ Abs(next_line.bbox[2] - current_line.bbox[4]) < thr
    /\ Abs(next_line.font_size - current_line.font_size) < FontTolerance

\* Variant that merges equal font sizes only (a slip C10 must detect).
ShouldMergeExactFont(current_line, next_line, thr) ==
    /\ next_line.page_num = current_line.page_num
    /\ Abs(next_line.bbox[2] - current_line.bbox[4]) < thr
    /\ next_line.font_size = current_line.font_size

\* The condition of the if statement in the loop body.
ShouldMerge(current_line, next_line, thr) ==
    /\ next_line.page_num = current_line.page_num
    /\ Abs(next_line.bbox[2] - current_line.bbox[4]) < thr
    /\ Abs(next_line.font_size - current_line.font_size) < FontTolerance

\* The then-branch: current_line's text and bbox are rebound, in place.
MergeInto(current_line, next_line) ==
    [current_line EXCEPT
        !.text = current_line.text \o <<" ">> \o next_line.text,
        !.bbox = << Min(current_line.bbox[1], next_line.bbox[1]),
                    Min(current_line.bbox[2], next_line.bbox[2]),
                    Max(current_line.bbox[3], next_line.bbox[3]),
                    Max(current_line.bbox[4], next_line.bbox[4]) >>]

\* The for loop over lines[1:], from position i on, then the final append.
\* current_line is a reference: the merge writes through it into the heap.
RECURSIVE MergeLoop(_, _, _, _, _, _)
MergeLoop(h, ls, i, current_line, merged_lines, thr) ==
    IF i > Len(ls)
    THEN [heap |-> h, merged_lines |-> Append(merged_lines, current_line)]
    ELSE IF ShouldMerge(h[current_line], h[ls[i]], thr)
         THEN MergeLoop([h EXCEPT ![current_line] =
                                     MergeInto(h[current_line], h[ls[i]])],
                        ls, i + 1, current_line, merged_lines, thr)
         ELSE MergeLoop(h, ls, i + 1, ls[i],
                        Append(merged_lines, current_line), thr)

\* Variant without the final merged_lines.append (a slip C7 must detect).
MergeNearbyLinesNoFlush(h, ls, thr) ==
    IF ls = <<>>
    THEN [heap |-> h, merged_lines |-> <<>>]
    ELSE LET r == MergeLoop(h, ls, 2, ls[1], <<>>, thr)
         IN  [r EXCEPT !.merged_lines =
                          SubSeq(r.merged_lines, 1, Len(r.merged_lines) - 1)]

MergeNearbyLines(h, ls, thr) ==
    IF ls = <<>>
    THEN [heap |-> h, merged_lines |-> <<>>]
    ELSE MergeLoop(h, ls, 2, ls[1], <<>>, thr)

\* ------------------------------------------ extract_document_structure

\* first_page_lines = [line for line in lines if line['page_num'] == 0]
FirstPageLines(h, ls) == SelectSeq(ls, LAMBDA r : h[r].page_num = 0)

\* max(line['font_size'] for line in first_page_lines)
MaxFontSize(h, refs) ==
    CHOOSE m \in {h[r].font_size : r \in Range(refs)} :
        \A r \in Range(refs) : h[r].font_size <= m

\* Variant that takes the smallest first-page size (a slip C4 must detect).
TitleLinesMin(h, ls) ==
    LET fp == FirstPageLines(h, ls)
        m  == CHOOSE m \in {h[r].font_size : r \in Range(fp)} :
                  \A r \in Range(fp) : h[r].font_size >= m
    IN  IF fp = <<>> THEN <<>>
        ELSE SelectSeq(fp, LAMBDA r : h[r].font_size = m)

\* title_lines = [line for line in first_page_lines if font_size == max_font_size]
TitleLines(h, ls) ==
    LET fp == FirstPageLines(h, ls)
    IN  IF fp = <<>> THEN <<>>
        ELSE SelectSeq(fp, LAMBDA r : h[r].font_size = MaxFontSize(h, fp))

\* extracted_title = " ".join(line['text'] for line in title_lines)
ExtractedTitle(h, ls) ==
    LET tl == TitleLines(h, ls)
    IN  JoinTexts([i \in 1..Len(tl) |-> h[tl[i]].text])

\* title_bboxes = [line['bbox'] for line in title_lines]
TitleBboxes(h, ls) ==
    LET tl == TitleLines(h, ls)
    IN  [i \in 1..Len(tl) |-> h[tl[i]].bbox]

\* Counter(xs)[x]
Count(xs, x) == Cardinality({i \in 1..Len(xs) : xs[i] = x})

\* Counter(xs).most_common(1)[0][0]: the most frequent element, and among
\* equally frequent ones the one first inserted, i.e. first encountered.
MostCommon(xs) ==
    LET best == CHOOSE i \in 1..Len(xs) :
                    /\ \A j \in 1..Len(xs) : Count(xs, xs[j]) <= Count(xs, xs[i])
                    /\ \A j \in 1..(i - 1) : Count(xs, xs[j]) < Count(xs, xs[i])
    IN  xs[best]

\* baseline_size = Counter(font_sizes).most_common(1)[0][0] if font_sizes else 12
BaselineSize(h, ls) ==
    LET font_sizes == [i \in 1..Len(ls) |-> h[ls[i]].font_size]
    IN  IF font_sizes = <<>> THEN 24 ELSE MostCommon(font_sizes)

\* Variant with <= for the word limit (a slip C8 must detect).
CandidatesWordLimitOff(h, ls, bboxes, baseline) ==
    SelectSeq(ls, LAMBDA r :
        /\ h[r].bbox \notin Range(bboxes)
        /\ h[r].font_size > baseline
        /\ WordCount(h[r].text) <= WordLimit)

\* The loop that fills candidates.
Candidates(h, ls, bboxes, baseline) ==
    SelectSeq(ls, LAMBDA r :
        /\ h[r].bbox \notin Range(bboxes)
        /\ h[r].font_size > baseline
        /\ WordCount(h[r].text) < WordLimit)

\* sorted(list(set(sizes)), reverse=True)
RECURSIVE SortedDescending(_)
SortedDescending(S) ==
    IF S = {} THEN <<>>
    ELSE LET m == CHOOSE x \in S : \A y \in S : y <= x
         IN  <<m>> \o SortedDescending(S \ {m})

RECURSIVE SortedAscending(_)
SortedAscending(S) ==
    IF S = {} THEN <<>>
    ELSE LET m == CHOOSE x \in S : \A y \in S : x <= y
         IN  <<m>> \o SortedAscending(S \ {m})

\* Variant without reverse=True (a slip C2 must detect).
HeadingFontSizesAscending(h, cands) ==
    SortedAscending({h[c].font_size : c \in Range(cands)})

HeadingFontSizes(h, cands) ==
    SortedDescending({h[c].font_size : c \in Range(cands)})

\* {size: f"H{i+1}" for i, size in enumerate(heading_font_sizes[:4])};
\* the sequence index k here is Python's i + 1.
SizeToLevel(heading_font_sizes) ==
    LET kept == SubSeq(heading_font_sizes, 1,
                       Min(MaxLevels, Len(heading_font_sizes)))
    IN  [size \in Range(kept) |->
            "H" \o ToString(CHOOSE k \in 1..Len(kept) : kept[k] = size)]

\* The loop that fills headings, before the sort.
BuildHeadings(h, cands) ==
    LET size_to_level == SizeToLevel(HeadingFontSizes(h, cands))
        kept == SelectSeq(cands, LAMBDA c :
                    h[c].font_size \in DOMAIN size_to_level)
    IN  [i \in 1..Len(kept) |->
            [level |-> size_to_level[h[kept[i]].font_size],
             text  |-> h[kept[i]].text,
             page  |-> h[kept[i]].page_num + 1,
             bbox  |-> h[kept[i]].bbox]]

\* key=lambda h: (h['page'], h['bbox'][1]), compared as Python compares tuples
KeyLess(a, b) ==
    \/ a.page < b.page
    \/ a.page = b.page /\ a.bbox[2] < b.bbox[2]

\* list.sort is stable: an element goes after every element whose key is not
\* greater than its own.
RECURSIVE InsertSorted(_, _)
InsertSorted(sorted, x) ==
    IF sorted = <<>> THEN <<x>>
    ELSE IF KeyLess(x, sorted[Len(sorted)])
         THEN Append(InsertSorted(SubSeq(sorted, 1, Len(sorted) - 1), x),
                     sorted[Len(sorted)])
         ELSE Append(sorted, x)

RECURSIVE SortLoop(_, _, _)
SortLoop(hs, i, sorted) ==
    IF i > Len(hs) THEN sorted
    ELSE SortLoop(hs, i + 1, InsertSorted(sorted, hs[i]))

\* Variant that leaves the list as built (a slip C3 must detect).
SortHeadingsUnsorted(hs) == hs

\* headings.sort(key=...)
SortHeadings(hs) == SortLoop(hs, 1, <<>>)

\* outline = [{"level": ..., "text": ..., "page": ...} for h in headings]
Project(hs) ==
    [i \in 1..Len(hs) |->
        [level |-> hs[i].level, text |-> hs[i].text, page |-> hs[i].page]]

\* ------------------------------------------------------ input families

Letters == <<"a", "b", "c", "d", "e", "f", "g", "h">>

\* A text of n words, each the single letter c.
RECURSIVE Words(_, _)
Words(c, n) == IF n <= 1 THEN <<c>> ELSE <<c, " ">> \o Words(c, n - 1)

\* What get_all_text_lines appends for one line of a page; line i of a
\* document has the letter i as its words, so that lines can be told apart.
RawLine(i, page, font, xspan, yspan, nwords) ==
    [text      |-> Words(Letters[i], nwords),
     font_size |-> font,
     page_num  |-> page,
     bbox      |-> <<xspan[1], yspan[1], xspan[2], yspan[2]>>]

\* Merge family: any page order, three fonts of which two are within a point
\* of each other, three vertical positions, boxes of different extent.
MergeFonts == {20, 21, 22}

MergeYSpans == {<<0, 1>>, <<3, 4>>, <<6, 7>>}

Thresholds == {3, DefaultThreshold}

MergeInput(n, pg, ft, ys) ==
    [i \in 1..n |-> RawLine(i, pg[i], ft[i], <<i, i + 2>>, ys[i], 1)]

\* Outline family: pages in document order (the first b lines on page 0),
\* texts of one word except for at most one line, of WordLimit - 1 words,
\* boxes that coincide when the vertical position does.
OutlineFonts == {20, 21, 24}

OutlineYSpans == {<<0, 1>>, <<6, 7>>}

OutlineDoc(n, b, long, ft, ys) ==
    [i \in 1..n |-> RawLine(i, IF i <= b THEN 0 ELSE 1, ft[i], <<0, 2>>,
                            ys[i], IF i = long THEN WordLimit - 1 ELSE 1)]

\* Levels family: one line more than a baseline and MaxLevels tiers need,
\* each of any of as many font sizes, a point apart; no line on page 0.
LevelFonts == {20 + 2 * k : k \in 0..(MaxLevels + 1)}

LevelDoc(ft) ==
    [i \in 1..(MaxLevels + 2) |->
        RawLine(i, 1, ft[i], <<0, 2>>, <<3 * i, 3 * i + 1>>, 1)]

\* Batch family: up to NumFiles PDFs, each empty or of one line.
BatchDocs ==
    {<<>>} \cup {<<RawLine(1, pg, 20, <<0, 2>>, <<0, 1>>, 1)>> : pg \in {0, 1}}

BatchInputs == UNION {[1..n -> BatchDocs] : n \in 1..NumFiles}

\* f"Error: {e}"
ErrorPrefix == <<"E", "r", "r", "o", "r", ":", " ">>

ErrorMessages == {<<"n", "o", " ", "f", "i", "l", "e">>}

\* ---------------------------------------------------------------- Init

NoLocals ==
    /\ extracted_title = <<>>
    /\ title_bboxes = <<>>
    /\ baseline_size = 0
    /\ candidates = <<>>
    /\ headings = <<>>
    /\ outline = <<>>

\* process_pdfs about to start on the directory fs.
BatchStart(fs) ==
    /\ files = fs
    /\ fi = 0
    /\ pc = "loop"
    /\ handle = [f \in 1..Len(fs) |-> "unopened"]
    /\ closes = [f \in 1..Len(fs) |-> 0]
    /\ heap = <<>>
    /\ raw_lines = <<>>
    /\ lines = <<>>
    /\ threshold = DefaultThreshold
    /\ first_result = <<>>
    /\ NoLocals
    /\ data = <<>>
    /\ outputs = [f \in 1..Len(fs) |-> <<>>]

InitBatch == \E fs \in BatchInputs : BatchStart(fs)

InitOutline ==
    \E n \in 0..MaxLines :
       \E b \in 0..n, long \in 0..n, ft \in [1..n -> OutlineFonts],
          ys \in [1..n -> OutlineYSpans] :
          BatchStart(<<OutlineDoc(n, b, long, ft, ys)>>)

InitLevels ==
    \E ft \in [1..(MaxLevels + 2) -> LevelFonts] : BatchStart(<<LevelDoc(ft)>>)

\* A caller about to call merge_nearby_lines(input, thr) on its own dicts.
MergeStart(input, thr) ==
    /\ files = <<input>>
    /\ fi = 1
    /\ pc = "m_call"
    /\ handle = <<"unopened">>
    /\ closes = <<0>>
    /\ heap = input
    /\ raw_lines = [i \in 1..Len(input) |-> i]
    /\ lines = <<>>
    /\ threshold = thr
    /\ first_result = <<>>
    /\ NoLocals
    /\ data = <<>>
    /\ outputs = << <<>> >>

InitMerge ==
    \E n \in 0..MaxLines :
       \E pg \in [1..n -> {0, 1}], ft \in [1..n -> MergeFonts],
          ys \in [1..n -> MergeYSpans], thr \in Thresholds :
          MergeStart(MergeInput(n, pg, ft, ys), thr)

\* ------------------------------------------------ merge harness actions

\* merged = merge_nearby_lines(input, thr), and a deep copy of the result
CallMerge ==
    /\ pc = "m_call"
    /\ LET r == MergeNearbyLines(heap, raw_lines, threshold)
       IN  /\ heap' = r.heap
           /\ lines' = r.merged_lines
           /\ first_result' = Deref(r.heap, r.merged_lines)
    /\ pc' = "m_again"
    /\ UNCHANGED <<files, fi, handle, closes, raw_lines, threshold, locals,
                   data, outputs>>

\* merge_nearby_lines(merged, thr): the result fed back as the input
CallMergeAgain ==
    /\ pc = "m_again"
    /\ LET r == MergeNearbyLines(heap, lines, threshold)
       IN  /\ heap' = r.heap
           /\ lines' = r.merged_lines
    /\ raw_lines' = lines
    /\ pc' = "m_done"
    /\ UNCHANGED <<files, fi, handle, closes, threshold, first_result, locals,
                   data, outputs>>

NextMerge == CallMerge \/ CallMergeAgain

SpecMerge == InitMerge /\ [][NextMerge]_vars

\* ------------------------------------------------------ process_pdfs

\* for pdf_file in input_dir.glob("*.pdf"): the next file, or the end
ForNext ==
    /\ pc = "loop"
    /\ IF fi < Len(files)
       THEN /\ fi' = fi + 1
            /\ pc' = "open"
            /\ heap' = <<>>
            /\ raw_lines' = <<>>
            /\ lines' = <<>>
            /\ extracted_title' = <<>>
            /\ title_bboxes' = <<>>
            /\ baseline_size' = 0
            /\ candidates' = <<>>
            /\ headings' = <<>>
            /\ outline' = <<>>
            /\ data' = <<>>
       ELSE /\ pc' = "done"
            /\ UNCHANGED <<fi, heap, raw_lines, lines, locals, data>>
    /\ UNCHANGED <<files, handle, closes, threshold, first_result, outputs>>

\* doc = fitz.open(pdf_path) returns a document
OpenOk ==
    /\ pc = "open"
    /\ handle' = [handle EXCEPT ![fi] = "open"]
    /\ pc' = "extract"
    /\ UNCHANGED <<files, fi, closes, heap, raw_lines, lines, threshold,
                   first_result, locals, data, outputs>>

\* fitz.open raises: return {"title": f"Error: {e}", "outline": []}
OpenFails ==
    /\ pc = "open"
    /\ handle' = [handle EXCEPT ![fi] = "failed"]
    /\ \E msg \in ErrorMessages :
           data' = <<[title |-> ErrorPrefix \o msg, outline |-> <<>>]>>
    /\ pc' = "write"
    /\ UNCHANGED <<files, fi, closes, heap, raw_lines, lines, threshold,
                   first_result, locals, outputs>>

\* raw_lines = get_all_text_lines(doc): a fresh dict per line
GetAllTextLines ==
    /\ pc = "extract"
    /\ heap' = files[fi]
    /\ raw_lines' = [i \in 1..Len(files[fi]) |-> i]
    /\ pc' = "merge"
    /\ UNCHANGED <<files, fi, handle, closes, lines, threshold, first_result,
                   locals, data, outputs>>

\* get_all_text_lines raises (a damaged page, an encrypted document): no
\* handler in extract_document_structure or process_pdfs, the program ends.
GetTextRaises ==
    /\ pc = "extract"
    /\ pc' = "crashed"
    /\ UNCHANGED <<files, fi, handle, closes, heap, raw_lines, lines,
                   threshold, first_result, locals, data, outputs>>

\* lines = merge_nearby_lines(raw_lines)
Merge ==
    /\ pc = "merge"
    /\ LET r == MergeNearbyLines(heap, raw_lines, DefaultThreshold)
       IN  /\ heap' = r.heap
           /\ lines' = r.merged_lines
    /\ pc' = "guard"
    /\ UNCHANGED <<files, fi, handle, closes, raw_lines, threshold,
                   first_result, locals, data, outputs>>

\* if not lines: doc.close(); return {"title": "", "outline": []}
EmptyGuard ==
    /\ pc = "guard"
    /\ IF lines = <<>>
       THEN /\ handle' = [handle EXCEPT ![fi] = "closed"]
            /\ closes' = [closes EXCEPT ![fi] = @ + 1]
            /\ data' = <<[title |-> <<>>, outline |-> <<>>]>>
            /\ pc' = "write"
       ELSE /\ pc' = "title"
            /\ UNCHANGED <<handle, closes, data>>
    /\ UNCHANGED <<files, fi, heap, raw_lines, lines, threshold, first_result,
                   locals, outputs>>

\* --- Title Extraction ---
TitleExtraction ==
    /\ pc = "title"
    /\ extracted_title' = ExtractedTitle(heap, lines)
    /\ title_bboxes' = TitleBboxes(heap, lines)
    /\ pc' = "classify"
    /\ UNCHANGED <<files, fi, handle, closes, heap, raw_lines, lines,
                   threshold, first_result, baseline_size, candidates,
                   headings, outline, data, outputs>>

\* --- Heading Classification ---: the baseline and the candidates
HeadingClassification ==
    /\ pc = "classify"
    /\ baseline_size' = BaselineSize(heap, lines)
    /\ candidates' = Candidates(heap, lines, title_bboxes,
                                BaselineSize(heap, lines))
    /\ pc' = "levels"
    /\ UNCHANGED <<files, fi, handle, closes, heap, raw_lines, lines,
                   threshold, first_result, extracted_title, title_bboxes,
                   headings, outline, data, outputs>>

\* if not candidates: outline = [] else: levels, sort, projection
LevelAssignment ==
    /\ pc = "levels"
    /\ IF candidates = <<>>
       THEN /\ headings' = <<>>
            /\ outline' = <<>>
       ELSE /\ headings' = SortHeadings(BuildHeadings(heap, candidates))
            /\ outline' = Project(SortHeadings(BuildHeadings(heap, candidates)))
    /\ pc' = "close"
    /\ UNCHANGED <<files, fi, handle, closes, heap, raw_lines, lines,
                   threshold, first_result, extracted_title, title_bboxes,
                   baseline_size, candidates, data, outputs>>

\* doc.close(); return {"title": extracted_title, "outline": outline}
CloseAndReturn ==
    /\ pc = "close"
    /\ handle' = [handle EXCEPT ![fi] = "closed"]
    /\ closes' = [closes EXCEPT ![fi] = @ + 1]
    /\ data' = <<[title |-> extracted_title, outline |-> outline]>>
    /\ pc' = "write"
    /\ UNCHANGED <<files, fi, heap, raw_lines, lines, threshold, first_result,
                   locals, outputs>>

\* if data: json.dump(data, f, ...)
WriteOutput ==
    /\ pc = "write"
    /\ outputs' = IF data # <<>> THEN [outputs EXCEPT ![fi] = data] ELSE outputs
    /\ pc' = "loop"
    /\ UNCHANGED <<files, fi, handle, closes, heap, raw_lines, lines,
                   threshold, first_result, locals, data>>

Next ==
    \/ ForNext
    \/ OpenOk
    \/ OpenFails
    \/ GetAllTextLines
    \/ GetTextRaises
    \/ Merge
    \/ EmptyGuard
    \/ TitleExtraction
    \/ HeadingClassification
    \/ LevelAssignment
    \/ CloseAndReturn
    \/ WriteOutput

SpecBatch == InitBatch /\ [][Next]_vars

SpecOutline == InitOutline /\ [][Next]_vars

SpecLevels == InitLevels /\ [][Next]_vars

\* =================================================================
\* Properties of merge_nearby_lines (checked under SpecMerge)
\* =================================================================

\* The merge predicate as the specification states it, on line values.
MergePredicate(previous, next, thr) ==
    /\ next.page_num = previous.page_num
    /\ Abs(next.bbox[2] - previous.bbox[4]) < thr
    /\ Abs(next.font_size - previous.font_size) < 2

\* The ways to cut input into consecutive runs, given by the sequence of the
\* runs' first positions, such that output k has the joined text of run k
\* and every line of run k is on output k's page.
RunStarts(input, output) ==
    IF input = <<>> THEN IF output = <<>> THEN {<<>>} ELSE {}
    ELSE {starts \in {SortedAscending({1} \cup cuts) :
                         cuts \in SUBSET (2..Len(input))} :
            /\ Len(starts) = Len(output)
            /\ \A k \in 1..Len(starts) :
                  LET last == IF k = Len(starts) THEN Len(input)
                              ELSE starts[k + 1] - 1
                  IN  /\ output[k].text =
                            JoinTexts([i \in 1..(last - starts[k] + 1) |->
                                          input[starts[k] + i - 1].text])
                      /\ \A i \in starts[k]..last :
                            input[i].page_num = output[k].page_num}

\* C1: the output of merge_nearby_lines, read in order, is a partition of the
\* input into consecutive runs in input order (each output text is the joined
\* text of its run), and all constituents of one output line are on one page.
C1_RunsOfOnePage ==
    pc # "m_call" => RunStarts(files[fi], first_result) # {}

\* C1 witness: a merge happened in an input that spans two pages.
C1_Witness ==
    /\ pc = "m_again"
    /\ Len(first_result) < Len(files[fi])
    /\ Len(first_result) >= 2
    /\ \E i, j \in 1..Len(files[fi]) :
          files[fi][i].page_num # files[fi][j].page_num

\* No two adjacent lines satisfy the merge predicate.
Maximal(ls, thr) ==
    \A k \in 1..(Len(ls) - 1) : ~MergePredicate(ls[k], ls[k + 1], thr)

\* C7: when the first merge was maximal, merging its result again with the
\* same threshold returns the same sequence of lines.
C7_Idempotent ==
    (pc = "m_done" /\ Maximal(first_result, threshold))
        => Deref(heap, lines) = first_result

\* C7 witness: a maximal first result of several lines, one of them merged,
\* has been merged again.
C7_Witness ==
    /\ pc = "m_done"
    /\ Maximal(first_result, threshold)
    /\ Len(first_result) >= 2
    /\ Len(first_result) < Len(files[fi])

\* C9: after the call every input record has the text, font size, page index
\* and bounding box it had before the call.
C9_InputUnchanged ==
    pc = "m_again" => Deref(heap, raw_lines) = files[fi]

\* C10 as claimed: no two adjacent finished output lines satisfy the merge
\* predicate.
C10_FinishedMaximal ==
    pc # "m_call" => Maximal(first_result, threshold)

\* C10 amended: no finished output line satisfies the merge predicate with
\* the first constituent of the output line after it, taken as that
\* constituent was in the input.
C10_MaximalAtFlush ==
    pc # "m_call" =>
        LET runs == RunStarts(files[fi], first_result)
        IN  /\ runs # {}
            /\ \A starts \in runs :
                  \A k \in 1..(Len(starts) - 1) :
                     ~MergePredicate(first_result[k], files[fi][starts[k + 1]],
                                     threshold)

\* C10 witness: two adjacent finished output lines do satisfy the predicate.
C10_Witness ==
    /\ pc = "m_again"
    /\ ~Maximal(first_result, threshold)

\* =================================================================
\* Properties of extract_document_structure (SpecOutline, SpecLevels)
\* =================================================================

\* The reconciled lines as values.
Reconciled == Deref(heap, lines)

\* Positions of the first-page lines of maximal first-page font size.
TitlePositions(vals) ==
    {i \in 1..Len(vals) :
        /\ vals[i].page_num = 0
        /\ \A j \in 1..Len(vals) :
              vals[j].page_num = 0 => vals[j].font_size <= vals[i].font_size}

TextsAt(vals, positions) ==
    LET order == SortedAscending(positions)
    IN  [k \in 1..Len(order) |-> vals[order[k]].text]

\* C4: the title is the texts of exactly the first-page lines of maximal
\* first-page font size, joined with one space in their order (empty when
\* there is none), it is what is returned, and no title line is a heading
\* candidate or a heading.
C4_Title ==
    /\ pc \in {"classify", "levels", "close"} =>
          extracted_title = JoinTexts(TextsAt(Reconciled, TitlePositions(Reconciled)))
    /\ pc \in {"levels", "close"} =>
          \A i \in TitlePositions(Reconciled) :
             /\ lines[i] \notin Range(candidates)
             /\ \A k \in 1..Len(headings) : headings[k].bbox # Reconciled[i].bbox
    /\ (pc = "write" /\ lines # <<>>) =>
          data[1].title = JoinTexts(TextsAt(Reconciled, TitlePositions(Reconciled)))

\* C4 witness: a title made of two lines has been returned.
C4_Witness ==
    /\ pc = "write"
    /\ lines # <<>>
    /\ Cardinality(TitlePositions(Reconciled)) >= 2
    /\ WordCount(data[1].title) >= 2

\* The most frequent font size, the first encountered among equals.
IsBaseline(vals, b) ==
    LET n(f) == Cardinality({j \in 1..Len(vals) : vals[j].font_size = f})
    IN  \E i \in 1..Len(vals) :
           /\ vals[i].font_size = b
           /\ \A j \in 1..Len(vals) : n(vals[j].font_size) <= n(b)
           /\ \A j \in 1..(i - 1) : n(vals[j].font_size) < n(b)

\* Positions of the lines that are heading candidates by the stated rule.
CandidatePositions(vals, b) ==
    {i \in 1..Len(vals) :
        /\ \A t \in TitlePositions(vals) : vals[i].bbox # vals[t].bbox
        /\ vals[i].font_size > b
        /\ WordCount(vals[i].text) < 20}

Rank(c) ==
    Cardinality({f \in {heap[d].font_size : d \in Range(candidates)} :
                    f > heap[c].font_size})

\* The candidates whose size is among the 4 largest, in candidate order.
Surviving == SelectSeq(candidates, LAMBDA c : Rank(c) < 4)

\* The heading record a surviving candidate stands for.
HeadingOf(c) ==
    [level |-> <<"H1", "H2", "H3", "H4">>[Rank(c) + 1],
     text  |-> heap[c].text,
     page  |-> heap[c].page_num + 1,
     bbox  |-> heap[c].bbox]

\* How often x occurs in the sequence s.
Occurrences(s, x) == Cardinality({k \in 1..Len(s) : s[k] = x})

\* C2: a candidate is in the outline if and only if its font size is among
\* the 4 largest distinct candidate sizes, with level H1 for the largest down
\* to H4 for the fourth; other candidates are absent and no other level occurs.
C2_Levels ==
    pc = "close" =>
        /\ Len(headings) = Len(Surviving)
        /\ \A c \in Range(candidates) :
              IF Rank(c) < 4
              THEN Occurrences(headings, HeadingOf(c)) =
                      Cardinality({k \in 1..Len(Surviving) :
                                      HeadingOf(Surviving[k]) = HeadingOf(c)})
              ELSE \A k \in 1..Len(headings) : headings[k].text # heap[c].text
        /\ outline = [k \in 1..Len(headings) |->
                         [level |-> headings[k].level, text |-> headings[k].text,
                          page |-> headings[k].page]]
        /\ \A k \in 1..Len(outline) :
              outline[k].level \in {"H1", "H2", "H3", "H4"}

\* C2 witness: candidates of five distinct sizes, four levels in the outline.
C2_Witness ==
    /\ pc = "close"
    /\ \E c \in Range(candidates) : Rank(c) = 4
    /\ {outline[k].level : k \in 1..Len(outline)} = {"H1", "H2", "H3", "H4"}

C5_BestEffort ==
    /\ pc # "crashed"
    /\ pc = "done" =>
          \A f \in 1..Len(files) :
             /\ outputs[f] # <<>>
             /\ handle[f] = "failed" =>
                   \E msg \in ErrorMessages :
                      outputs[f] = <<[title |-> ErrorPrefix \o msg,
                                      outline |-> <<>>]>>

\* C6: once a call of extract_document_structure has ended, by a return or
\* by an exception, the document it opened has been closed exactly once, one
\* it could not open has never been closed, and none is left open.
C6_Released ==
    pc \in {"write", "loop", "done", "crashed"} =>
        \A f \in 1..fi :
           /\ handle[f] # "open"
           /\ closes[f] = IF handle[f] = "closed" THEN 1 ELSE 0

====
